---- MODULE Spec2Model ----
(***************************************************************************)
(* Model of basemap_generator.py: one catalog query (get_tif_urls), the    *)
(* resumable download loop of process_tifs with its ProcessTracker and     *)
(* download_tif's bounded retries, and the four external commands.  The    *)
(* process may be killed at any step and run again; what is on disk (the   *)
(* progress file, the downloaded rasters, the manifest) survives, what is  *)
(* in memory does not.                                                     *)
(***************************************************************************)
EXTENDS Integers, Sequences, FiniteSets, TLC

\* ------------------------------------------------------------ bounds
\* Longest catalog response (number of features).
MaxFeatures == 3
\* Number of runs of main() in one behaviour.
MaxRuns == 2
\* Longest progress file (number of entries) a tracker is constructed on
\* when ProcessTracker is exercised on its own.
MaxPersisted == 3
\* Features of a catalog response that has a malformed feature.
MaxMalformed == 2
\* The greatest max_retries download_tif is called with on its own.
MaxRetriesArg == 4

\* ------------------------------------------------- program constants
\* download_tif(url, output_path, max_retries=3)
MaxRetries == 3
\* wait_time = (attempt + 1) * 5
BackoffUnit == 5
\* create_retry_session(retries=3): Retry(total=retries, ...).
RetryTotal == 3
\* requests.Session(): max_redirects is left at its default.
RedirectLimit == 30

\* ------------------------------------------------------ input domains
\* Asset URLs (feature['assets']['image']['href']).
UrlOrder == <<"A", "B", "C">>
URLs == {UrlOrder[k] : k \in 1..Len(UrlOrder)}
\* properties.datetime, 'YYYY-MM-DDT00:00:00Z', as <<year, month, day>>.
Dates == {<<2022, 5, 1>>, <<2023, 6, 1>>, <<2023, 7, 1>>}
Features == [datetime : Dates, href : URLs]
FeatureSeqs == UNION {[1..n -> Features] : n \in 0..MaxFeatures}
MaxUrls == Cardinality(URLs)

\* The response of the example: 2023-06-01, 2023-07-01, 2022-05-01 with the
\* assets A, B, A.
ExampleFeatures ==
    << [datetime |-> <<2023, 6, 1>>, href |-> "A"],
       [datetime |-> <<2023, 7, 1>>, href |-> "B"],
       [datetime |-> <<2022, 5, 1>>, href |-> "A"] >>

\* The catalogs whole runs are followed on: the first n assets, each once
\* and of one date (any other choice or order of assets is the same up to
\* their names), and the example.
RunCatalogs ==
    {[k \in 1..n |-> [datetime |-> <<2023, 7, 1>>, href |-> UrlOrder[k]]] :
        n \in 0..MaxUrls}
    \cup {ExampleFeatures}

\* ------------------------------------------------------------ helpers
Range(s) == {s[k] : k \in 1..Len(s)}

\* The order of two datetime strings of the fixed-width ISO format: the
\* character order is the order of (year, month, day).
DtLess(a, b) ==
    \/ a[1] < b[1]
    \/ a[1] = b[1] /\ a[2] < b[2]
    \/ a[1] = b[1] /\ a[2] = b[2] /\ a[3] < b[3]

\* datetime.strptime(s, '%Y-%m-%dT%H:%M:%SZ').year
Year(dt) == dt[1]

\* One step of a stable descending sort: f goes before the first element
\* with a smaller key, so after every element with an equal key.
RECURSIVE InsertDesc(_, _)
InsertDesc(f, s) ==
    IF s = <<>> THEN <<f>>
    ELSE IF DtLess(s[1].datetime, f.datetime) THEN <<f>> \o s
    ELSE <<s[1]>> \o InsertDesc(f, Tail(s))

\* Faulty variant: the features are left in response order.
SortedDescOmitted(fs) == fs

\* sorted(features, key=lambda x: x['properties']['datetime'], reverse=True)
RECURSIVE SortedDesc(_)
SortedDesc(fs) ==
    IF fs = <<>> THEN <<>>
    ELSE InsertDesc(fs[Len(fs)], SortedDesc(SubSeq(fs, 1, Len(fs) - 1)))

\* latest_year: the year of the first feature of the sorted list.
LatestYear(fs) == Year(SortedDesc(fs)[1].datetime)

\* Faulty variant: the features of every year are kept.
RegionFeaturesUnfiltered(fs) == SortedDesc(fs)

\* region_features: the sorted features of the latest year.
RegionFeatures(fs) ==
    SelectSeq(SortedDesc(fs), LAMBDA f : Year(f.datetime) = LatestYear(fs))

\* for feature in region_features: if url not in all_urls: append
RECURSIVE CollectUrls(_, _)
CollectUrls(fs, acc) ==
    IF fs = <<>> THEN acc
    ELSE CollectUrls(Tail(fs),
                     IF fs[1].href \in Range(acc) THEN acc
                     ELSE Append(acc, fs[1].href))

\* The list get_tif_urls returns for a response with these features.
TifUrlsOf(fs) ==
    IF fs = <<>> THEN <<>> ELSE CollectUrls(RegionFeatures(fs), <<>>)

\* What a feature of a response can lack: properties.datetime is missing,
\* properties.datetime is not of the format '%Y-%m-%dT%H:%M:%SZ',
\* assets.image.href is missing.
Defects == {"no_datetime", "bad_datetime", "no_href"}

\* The features of a response one of which is malformed.  A datetime that
\* is missing or unreadable is written <<0, 0, 0>>, a missing href "".
MalformedSeqs ==
    UNION {
      {[j \in 1..n |->
          IF j # k THEN [datetime |-> base[j].datetime,
                         href |-> base[j].href, defect |-> "none"]
          ELSE [datetime |-> IF d = "no_href" THEN base[j].datetime
                             ELSE <<0, 0, 0>>,
                href |-> IF d = "no_href" THEN "" ELSE base[j].href,
                defect |-> d]] :
         base \in [1..n -> Features], k \in 1..n, d \in Defects} :
      n \in 1..MaxMalformed}

\* Whether get_tif_urls raises on these features: the sort key raises
\* KeyError on a missing datetime (116), strptime raises ValueError on an
\* unreadable one (118, 123), and the loop raises KeyError on a missing href
\* of a feature of the latest year (129).  None is a RequestException.
QueryRaises(fs) ==
    \/ \E k \in 1..Len(fs) : fs[k].defect \in {"no_datetime", "bad_datetime"}
    \/ \E k \in 1..Len(RegionFeatures(fs)) :
          RegionFeatures(fs)[k].defect = "no_href"

\* The features the loop of lines 128-131 has passed when it raises: those
\* before the first one that has no href.
RECURSIVE BeforeMissingHref(_)
BeforeMissingHref(fs) ==
    IF fs = <<>> \/ fs[1].defect = "no_href" THEN <<>>
    ELSE <<fs[1]>> \o BeforeMissingHref(Tail(fs))

\* What all_urls holds when get_tif_urls raises on these features: nothing
\* when the sort or strptime raises, before the loop; the URLs appended
\* for the features before it when a feature of the latest year has no
\* href.
UrlsBeforeRaise(fs) ==
    IF \E k \in 1..Len(fs) : fs[k].defect \in {"no_datetime", "bad_datetime"}
    THEN <<>>
    ELSE CollectUrls(BeforeMissingHref(RegionFeatures(fs)), <<>>)

\* (variant: the files are numbered from 0)
TifPathFromZero(k) == <<"input_", k - 1, ".tif">>

\* os.path.join(output_dir, f"input_{i}.tif")
TifPath(k) == <<"input_", k, ".tif">>

\* The line separator of the manifest.
Newline == <<"\n">>

\* '\n'.join(input_files): the paths with a separator between each two.
RECURSIVE JoinLines(_)
JoinLines(paths) ==
    IF Len(paths) <= 1 THEN paths
    ELSE <<paths[1], Newline>> \o JoinLines(Tail(paths))

\* (variant: an empty array is written whatever the list)
JsonDumpEmpty(list) == <<"[", "]">>

\* json.dump(list(...), f): the text of a JSON array, token by token.
JsonDump(list) == <<"[">> \o list \o <<"]">>

\* The text of a complete JSON array of strings.
JsonArray(text) ==
    /\ Len(text) >= 2
    /\ text[1] = "["
    /\ text[Len(text)] = "]"
    /\ \A k \in 2..(Len(text) - 1) : text[k] \in URLs

\* The text of a complete JSON object: its keys, the values left out.
JsonObject(text) ==
    /\ Len(text) >= 2
    /\ text[1] = "{"
    /\ text[Len(text)] = "}"
    /\ \A k \in 2..(Len(text) - 1) : text[k] \in URLs

\* The text of a JSON number.
JsonNumber(text) == text = <<"0">>

\* (variant: json.load accepts any text)
JsonValidLenient(text) == TRUE

\* Whether json.load accepts the text: a complete JSON document.
JsonValid(text) == JsonArray(text) \/ JsonObject(text) \/ JsonNumber(text)

\* Whether set(...) accepts what json.load returned: a list gives the set
\* of its elements, a dict the set of its keys; a number is not iterable
\* and set raises TypeError.
SetAccepts(text) == ~JsonNumber(text)

\* set(json.load(f)) of a text both accept.
JsonLoadSet(text) == {text[k] : k \in 2..(Len(text) - 1)}

\* list(self.completed_urls): each element once, in the iteration order of
\* the set, which depends on the interpreter run (hash seed) and on the
\* insertions: any order.
ListsOf(S) ==
    {list \in [1..Cardinality(S) -> S] :
        \A j, k \in 1..Cardinality(S) : j # k => list[j] # list[k]}

\* Faulty variant: the tracker is never consulted.
is_completed_never(set, url) == FALSE

\* ProcessTracker.is_completed
is_completed(set, url) == url \in set

\* Faulty variant: the set is replaced instead of extended.
AddUrlReplacing(set, url) == {url}

\* ProcessTracker.mark_completed: self.completed_urls.add(url)
AddUrl(set, url) == set \cup {url}

\* Faulty variant: main goes on with an empty list.
NoImagesUnchecked(urls) == FALSE

\* main: if not tif_urls
NoImages(urls) == urls = <<>>

\* Faulty variant: the pipeline runs whatever the loop produced.
NoInputFilesUnchecked(paths) == FALSE

\* process_tifs: if not input_files
NoInputFiles(paths) == paths = <<>>

\* What session.get or raise_for_status raises before output_path is
\* opened: HTTPError for a 4xx status, HTTPError for a 413 or 429 that
\* carries Retry-After, HTTPError for a 5xx status that is not on the
\* forcelist (501, 505), ConnectionError when the connection fails,
\* RetryError for a status of the forcelist (500, 502, 503, 504),
\* InvalidSchema or MissingSchema for an URL no adapter is mounted for,
\* TooManyRedirects.
ErrorsBeforeOpen ==
    {"http_4xx", "http_4xx_retry_after", "http_5xx_unlisted", "connect",
     "http_5xx", "invalid_url", "too_many_redirects"}

\* What the session's adapter sends again as long as total allows, as
\* Retry(total=retries, status_forcelist=[500, 502, 503, 504]) tells it:
\* total counts failed connections as well as the listed statuses, and
\* respect_retry_after_header is left True, so a 413 or 429 with
\* Retry-After is sent again too.
RetriedBySession == {"connect", "http_5xx", "http_4xx_retry_after"}

\* (variant: the session sends every request once)
SessionSendsOnce(kind, r) == {1}

\* How often the session can have sent the request when the attempt fails
\* this way after r answers that were redirects.  requests follows a
\* redirect with a new adapter.send, which has the whole of total again:
\* each answer passed on (a redirect, or the last one) took 1 to
\* 1 + total sends.  A failure the adapter retries is raised when total is
\* used up; an URL that cannot be sent takes no send; TooManyRedirects is
\* raised on the redirect after the last one followed.
SessionSends(kind, r) ==
    LET redirected == r..(r * (1 + RetryTotal))
    IN  IF kind = "too_many_redirects"
        THEN IF r = RedirectLimit + 1 THEN redirected ELSE {}
        ELSE IF r > RedirectLimit THEN {}
        ELSE IF kind = "invalid_url" THEN redirected
        ELSE IF kind \in RetriedBySession
        THEN {h + 1 + RetryTotal : h \in redirected}
        ELSE {h + n : h \in redirected, n \in 1..(1 + RetryTotal)}

\* Faulty variant: a constant pause.
WaitTimeConstant(a) == BackoffUnit

\* download_tif: wait_time = (attempt + 1) * 5
WaitTime(a) == (a + 1) * BackoffUnit

\* ------------------------------------------------------------- state
VARIABLES
    pc,             \* where the process is
    run,            \* number of the current run of main()
    response,       \* get_tif_urls: the search request: "none", "ok", "error"
    features,       \* get_tif_urls: the features of the response
    all_urls,       \* get_tif_urls: the list it builds and returns
    tif_urls,       \* main / process_tifs: the URL list
    tracker_made,   \* process_tifs: a ProcessTracker was constructed
    completed_urls, \* ProcessTracker.completed_urls
    input_files,    \* process_tifs: the paths downloaded in this run
    i,              \* process_tifs: the 1-based index of the current URL
    attempt,        \* download_tif: the attempt index (from 0)
    waits,          \* download_tif: the time.sleep calls of the current call
    streamed,       \* download_tif: the current call has opened output_path
    dl_ret,         \* download_tif: what the current call returned
    requested,      \* the URLs a session.get was issued for in this run
    n_get,          \* download_tif: session.get calls of the current call
    max_retries,    \* download_tif: its parameter max_retries
    error,          \* download_tif: the exception the except clause caught
    sent,           \* how often the session had sent that request
    redirects,      \* how many of the answers to it were redirects
    cmds,           \* subprocess.run calls of this run, with their exit codes
    wrote_manifest, \* input_files.txt was written in this run
    progress_file,  \* disk: download_progress.json
    files,          \* disk: input_<k>.tif, "none", "partial" or "complete"
    manifest,       \* disk: input_files.txt
    file_before,    \* history: files[i] when the current download began
    saved_before,   \* history: the persisted set as mark_completed began
    loaded_urls,    \* history: what load_progress returned in this run
    marked_done,    \* history: URLs whose mark_completed has returned
    downloaded,     \* history: URLs whose download_tif has returned True
    catalog,        \* environment: the features the catalog answers with
    killed_at       \* history: where the previous run was killed, if it was

vars == <<pc, run, max_retries, response, features, all_urls, tif_urls,
          tracker_made, completed_urls, input_files, i, attempt, waits,
          streamed, dl_ret, requested, n_get, error, sent, redirects, cmds,
          wrote_manifest, progress_file, files, manifest, file_before,
          saved_before, loaded_urls, marked_done, downloaded, catalog,
          killed_at>>

\* The memory of the process: gone when it ends.
memory == <<response, features, all_urls, tif_urls, tracker_made,
            completed_urls, input_files, i, attempt, waits, streamed, dl_ret,
            requested, n_get, error, sent, redirects, cmds, wrote_manifest,
            file_before, saved_before, loaded_urls>>
disk == <<progress_file, files, manifest>>
history == <<marked_done, downloaded, catalog, killed_at>>

NoFile == [exists |-> FALSE, text |-> <<>>]

FreshMemory ==
    /\ response = "none"
    /\ features = <<>>
    /\ all_urls = <<>>
    /\ tif_urls = <<>>
    /\ tracker_made = FALSE
    /\ completed_urls = {}
    /\ input_files = <<>>
    /\ i = 0
    /\ attempt = 0
    /\ waits = <<>>
    /\ streamed = FALSE
    /\ dl_ret = "none"
    /\ requested = {}
    /\ n_get = 0
    /\ error = "none"
    /\ sent = 0
    /\ redirects = 0
    /\ cmds = <<>>
    /\ wrote_manifest = FALSE
    /\ file_before = "none"
    /\ saved_before = {}
    /\ loaded_urls = {}

Init ==
    /\ pc = "main"
    /\ run = 1
    /\ max_retries = MaxRetries
    /\ FreshMemory
    /\ progress_file = NoFile
    /\ files = [k \in 1..MaxUrls |-> "none"]
    /\ manifest = NoFile
    /\ marked_done = {}
    /\ downloaded = {}
    /\ catalog \in RunCatalogs
    /\ killed_at = "none"


\* The process starts again with nothing in memory.
ResetMemory ==
    /\ response' = "none"
    /\ features' = <<>>
    /\ all_urls' = <<>>
    /\ tif_urls' = <<>>
    /\ tracker_made' = FALSE
    /\ completed_urls' = {}
    /\ input_files' = <<>>
    /\ i' = 0
    /\ attempt' = 0
    /\ waits' = <<>>
    /\ streamed' = FALSE
    /\ dl_ret' = "none"
    /\ requested' = {}
    /\ n_get' = 0
    /\ error' = "none"
    /\ sent' = 0
    /\ redirects' = 0
    /\ cmds' = <<>>
    /\ wrote_manifest' = FALSE
    /\ file_before' = "none"
    /\ saved_before' = {}
    /\ loaded_urls' = {}

\* Whether every feature of the response has its datetime and its href.
WellFormed(fs) == \A k \in 1..Len(fs) : "defect" \notin DOMAIN fs[k]

\* ------------------------------------------------------ get_tif_urls
\* The search request succeeds: features, sort, latest year, filter, dedup.
\* The catalog answers every run with the same features.
GetTifUrls ==
    /\ pc = "main"
    /\ WellFormed(catalog)
    /\ features' = catalog
    /\ all_urls' = TifUrlsOf(catalog)
    /\ response' = "ok"
    /\ pc' = "gtu_return"
    /\ UNCHANGED <<run, max_retries, tif_urls, tracker_made, completed_urls,
                   input_files, i, attempt, waits, streamed, dl_ret, requested,
                   n_get, error, sent, redirects, cmds, wrote_manifest,
                   file_before, saved_before, loaded_urls>>
    /\ UNCHANGED <<disk, history>>

\* The catalog never answers: session.post has no timeout either.
GetTifUrlsBlocks ==
    /\ pc = "main"
    /\ pc' = "blocked"
    /\ UNCHANGED <<run, max_retries, memory, disk, history>>

\* The response has a malformed feature: the KeyError or ValueError it
\* raises is caught nowhere and ends the run; when nothing raises (the
\* feature without href is of an earlier year) the list is built as usual.
GetTifUrlsMalformed ==
    /\ pc = "main"
    /\ ~WellFormed(catalog)
    /\ features' = catalog
    /\ IF QueryRaises(catalog)
       THEN /\ all_urls' = UrlsBeforeRaise(catalog)
            /\ pc' = "crashed_query"
       ELSE /\ all_urls' = TifUrlsOf(catalog)
            /\ pc' = "gtu_return"
    /\ response' = "ok"
    /\ UNCHANGED <<run, max_retries, tif_urls, tracker_made, completed_urls,
                   input_files, i, attempt, waits, streamed, dl_ret, requested,
                   n_get, error, sent, redirects, cmds, wrote_manifest,
                   file_before, saved_before, loaded_urls>>
    /\ UNCHANGED <<disk, history>>

\* (variant: the exception of the search request is caught nowhere)
GetTifUrlsErrorUncaught ==
    /\ pc = "main"
    /\ response' = "error"
    /\ pc' = "crashed_query"
    /\ UNCHANGED <<run, max_retries, features, all_urls, tif_urls,
                   tracker_made, completed_urls, input_files, i, attempt,
                   waits, streamed, dl_ret, requested, n_get, error, sent,
                   redirects, cmds, wrote_manifest, file_before, saved_before,
                   loaded_urls>>
    /\ UNCHANGED <<disk, history>>

\* session.post or raise_for_status raises a RequestException (connection
\* failure, timeout, error status): it is caught, all_urls is still [].
GetTifUrlsError ==
    /\ pc = "main"
    /\ response' = "error"
    /\ all_urls' = <<>>
    /\ pc' = "gtu_return"
    /\ UNCHANGED <<run, max_retries, features, tif_urls, tracker_made,
                   completed_urls, input_files, i, attempt, waits, streamed,
                   dl_ret, requested, n_get, error, sent, redirects, cmds,
                   wrote_manifest, file_before, saved_before, loaded_urls>>
    /\ UNCHANGED <<disk, history>>

\* -------------------------------------------------------------- main
\* tif_urls = get_tif_urls(); if not tif_urls: return
MainNoImages ==
    /\ pc = "gtu_return"
    /\ NoImages(all_urls)
    /\ tif_urls' = all_urls
    /\ features' = <<>>
    /\ pc' = "exit"
    /\ UNCHANGED <<run, max_retries, response, all_urls, tracker_made,
                   completed_urls, input_files, i, attempt, waits, streamed,
                   dl_ret, requested, n_get, error, sent, redirects, cmds,
                   wrote_manifest, file_before, saved_before, loaded_urls>>
    /\ UNCHANGED <<disk, history>>

\* process_tifs(tif_urls, output_dir) is called.
MainProcess ==
    /\ pc = "gtu_return"
    /\ ~NoImages(all_urls)
    /\ tif_urls' = all_urls
    /\ features' = <<>>
    /\ pc' = "pt_init"
    /\ UNCHANGED <<run, max_retries, response, all_urls, tracker_made,
                   completed_urls, input_files, i, attempt, waits, streamed,
                   dl_ret, requested, n_get, error, sent, redirects, cmds,
                   wrote_manifest, file_before, saved_before, loaded_urls>>
    /\ UNCHANGED <<disk, history>>

\* ----------------------------------------- ProcessTracker.__init__
\* What load_progress returns for the file as it is (no file: set()).
PersistedSet ==
    IF /\ progress_file.exists
       /\ JsonValid(progress_file.text)
       /\ SetAccepts(progress_file.text)
    THEN JsonLoadSet(progress_file.text) ELSE {}

\* load_progress: no file gives set(); a JSON array gives the set of its
\* elements (and a JSON object the set of its keys).
LoadProgress ==
    /\ pc = "pt_init"
    /\ \/ ~progress_file.exists
       \/ JsonValid(progress_file.text) /\ SetAccepts(progress_file.text)
    /\ completed_urls' = PersistedSet
    /\ loaded_urls' = completed_urls'
    /\ tracker_made' = TRUE
    /\ input_files' = <<>>
    /\ pc' = "loop"
    /\ UNCHANGED <<run, max_retries, response, features, all_urls, tif_urls, i,
                   attempt, waits, streamed, dl_ret, requested, n_get, error,
                   sent, redirects, cmds, wrote_manifest, file_before,
                   saved_before>>
    /\ UNCHANGED <<disk, history>>

\* load_progress: json.load raises on a text that is no JSON document, set
\* on a value it cannot iterate; the exception is caught nowhere and ends
\* the run.
LoadProgressRaises ==
    /\ pc = "pt_init"
    /\ progress_file.exists
    /\ ~JsonValid(progress_file.text) \/ ~SetAccepts(progress_file.text)
    /\ pc' = "crashed"
    /\ UNCHANGED <<run, max_retries, memory, disk, history>>


\* --------------------------------------- process_tifs: download loop
\* if tracker.is_completed(url): continue
LoopSkip ==
    /\ pc = "loop"
    /\ i < Len(tif_urls)
    /\ is_completed(completed_urls, tif_urls[i + 1])
    /\ i' = i + 1
    /\ attempt' = 0
    /\ waits' = <<>>
    /\ streamed' = FALSE
    /\ dl_ret' = "none"
    /\ n_get' = 0
    /\ error' = "none"
    /\ sent' = 0
    /\ redirects' = 0
    /\ file_before' = "none"
    /\ saved_before' = {}
    /\ UNCHANGED <<pc, run, max_retries, response, features, all_urls,
                   tif_urls, tracker_made, completed_urls, input_files,
                   requested, cmds, wrote_manifest, loaded_urls>>
    /\ UNCHANGED <<disk, history>>

\* download_tif(url, tif_path) is called for an URL not yet completed.
LoopDownload ==
    /\ pc = "loop"
    /\ i < Len(tif_urls)
    /\ ~is_completed(completed_urls, tif_urls[i + 1])
    /\ i' = i + 1
    /\ attempt' = 0
    /\ waits' = <<>>
    /\ streamed' = FALSE
    /\ dl_ret' = "none"
    /\ n_get' = 0
    /\ error' = "none"
    /\ sent' = 0
    /\ redirects' = 0
    /\ file_before' = files[i + 1]
    /\ saved_before' = {}
    /\ pc' = "attempt"
    /\ UNCHANGED <<run, max_retries, response, features, all_urls, tif_urls,
                   tracker_made, completed_urls, input_files, requested, cmds,
                   wrote_manifest, loaded_urls>>
    /\ UNCHANGED <<disk, history>>

\* The for loop is exhausted.
LoopEnd ==
    /\ pc = "loop"
    /\ i = Len(tif_urls)
    /\ attempt' = 0
    /\ waits' = <<>>
    /\ streamed' = FALSE
    /\ dl_ret' = "none"
    /\ n_get' = 0
    /\ error' = "none"
    /\ sent' = 0
    /\ redirects' = 0
    /\ file_before' = "none"
    /\ saved_before' = {}
    /\ pc' = "after_loop"
    /\ UNCHANGED <<run, max_retries, response, features, all_urls, tif_urls,
                   tracker_made, completed_urls, input_files, i, requested,
                   cmds, wrote_manifest, loaded_urls>>
    /\ UNCHANGED <<disk, history>>

\* ------------------------------------------------------ download_tif
\* What output_path can hold once it has been opened: the whole body or a
\* part of it.  iter_content ends without an exception on a part when the
\* connection was closed early and the HTTP library does not compare the
\* bytes received with Content-Length (urllib3 1.x; total_size of line 48
\* is never used).
BodiesWritten == {"complete", "partial"}

\* One attempt: the request, then the body streamed to output_path.
AttemptSucceeds ==
    /\ pc = "attempt"
    /\ requested' = requested \cup {tif_urls[i]}
    /\ n_get' = n_get + 1
    /\ UNCHANGED <<error, sent, redirects>>
    /\ \E body \in BodiesWritten : files' = [files EXCEPT ![i] = body]
    /\ streamed' = TRUE
    /\ dl_ret' = "True"
    /\ downloaded' = downloaded \cup {tif_urls[i]}
    /\ pc' = "dl_ok"
    /\ UNCHANGED <<run, max_retries, response, features, all_urls, tif_urls,
                   tracker_made, completed_urls, input_files, i, attempt,
                   waits, cmds, wrote_manifest, file_before, saved_before,
                   loaded_urls>>
    /\ UNCHANGED <<progress_file, manifest, marked_done, catalog, killed_at>>

\* The server never answers: session.timeout of line 39 is an attribute
\* requests does not read, so session.get has no timeout and never returns.
AttemptBlocks ==
    /\ pc = "attempt"
    /\ requested' = requested \cup {tif_urls[i]}
    /\ n_get' = n_get + 1
    /\ pc' = "blocked"
    /\ UNCHANGED <<run, max_retries, response, features, all_urls, tif_urls,
                   tracker_made, completed_urls, input_files, i, attempt,
                   waits, streamed, dl_ret, error, sent, redirects, cmds,
                   wrote_manifest, file_before, saved_before, loaded_urls>>
    /\ UNCHANGED <<disk, history>>

\* The server falls silent after the headers: iter_content never returns,
\* with output_path opened and holding what was written so far.
AttemptBlocksStreaming ==
    /\ pc = "attempt"
    /\ requested' = requested \cup {tif_urls[i]}
    /\ n_get' = n_get + 1
    /\ \E body \in BodiesWritten : files' = [files EXCEPT ![i] = body]
    /\ streamed' = TRUE
    /\ pc' = "blocked"
    /\ UNCHANGED <<run, max_retries, response, features, all_urls, tif_urls,
                   tracker_made, completed_urls, input_files, i, attempt,
                   waits, dl_ret, error, sent, redirects, cmds, wrote_manifest,
                   file_before, saved_before, loaded_urls>>
    /\ UNCHANGED <<progress_file, manifest, history>>

\* int(response.headers.get('content-length', 0)) raises ValueError on a
\* Content-Length that is no number: it is no RequestException, nothing
\* catches it and the run ends there, output_path not opened.
AttemptCrashes ==
    /\ pc = "attempt"
    /\ requested' = requested \cup {tif_urls[i]}
    /\ n_get' = n_get + 1
    /\ pc' = "crashed_dl"
    /\ UNCHANGED <<run, max_retries, response, features, all_urls, tif_urls,
                   tracker_made, completed_urls, input_files, i, attempt,
                   waits, streamed, dl_ret, error, sent, redirects, cmds,
                   wrote_manifest, file_before, saved_before, loaded_urls>>
    /\ UNCHANGED <<disk, history>>

\* session.get or raise_for_status raises after one of these numbers of
\* redirects: output_path is not opened.
FailsBeforeOpen(Redirects) ==
    /\ pc = "attempt"
    /\ requested' = requested \cup {tif_urls[i]}
    /\ n_get' = n_get + 1
    /\ \E kind \in ErrorsBeforeOpen, r \in Redirects :
         /\ error' = kind
         /\ redirects' = r
         /\ sent' \in SessionSends(kind, r)
    /\ pc' = "except"
    /\ UNCHANGED <<run, max_retries, response, features, all_urls, tif_urls,
                   tracker_made, completed_urls, input_files, i, attempt,
                   waits, streamed, dl_ret, cmds, wrote_manifest, file_before,
                   saved_before, loaded_urls>>
    /\ UNCHANGED <<disk, history>>

\* The server answers the URL itself.
AttemptFailsBeforeOpen == FailsBeforeOpen({0})

\* The server answers with redirects, which requests follows.
AttemptFailsRedirected == FailsBeforeOpen(1..(RedirectLimit + 1))

\* iter_content raises after open(output_path, 'wb'): the file is left with
\* what was written so far, which is the whole body when the failure
\* comes after its last byte.
FailsStreaming(Redirects) ==
    /\ pc = "attempt"
    /\ requested' = requested \cup {tif_urls[i]}
    /\ n_get' = n_get + 1
    /\ error' = "stream"
    /\ \E r \in Redirects :
         /\ redirects' = r
         /\ sent' \in SessionSends("stream", r)
    /\ \E body \in BodiesWritten : files' = [files EXCEPT ![i] = body]
    /\ streamed' = TRUE
    /\ pc' = "except"
    /\ UNCHANGED <<run, max_retries, response, features, all_urls, tif_urls,
                   tracker_made, completed_urls, input_files, i, attempt,
                   waits, dl_ret, cmds, wrote_manifest, file_before,
                   saved_before, loaded_urls>>
    /\ UNCHANGED <<progress_file, manifest, history>>

AttemptFailsStreaming == FailsStreaming({0})

AttemptFailsStreamingRedirected == FailsStreaming(1..RedirectLimit)

\* Faulty variant: one attempt too many.
RetriesLeftOffByOne(a) == a < max_retries

\* download_tif: if attempt < max_retries - 1
RetriesLeft(a) == a < max_retries - 1

\* except: attempt < max_retries - 1: sleep (attempt + 1) * 5, next attempt.
RetryAfterWait ==
    /\ pc = "except"
    /\ RetriesLeft(attempt)
    /\ waits' = Append(waits, WaitTime(attempt))
    /\ attempt' = attempt + 1
    /\ error' = "none"
    /\ sent' = 0
    /\ redirects' = 0
    /\ pc' = "attempt"
    /\ UNCHANGED <<run, max_retries, response, features, all_urls, tif_urls,
                   tracker_made, completed_urls, input_files, i, streamed,
                   dl_ret, requested, n_get, cmds, wrote_manifest, file_before,
                   saved_before, loaded_urls>>
    /\ UNCHANGED <<disk, history>>

\* except: the last attempt: return False; the loop goes on.
GiveUp ==
    /\ pc = "except"
    /\ ~RetriesLeft(attempt)
    /\ dl_ret' = "False"
    /\ error' = "none"
    /\ sent' = 0
    /\ redirects' = 0
    /\ pc' = "loop"
    /\ UNCHANGED <<run, max_retries, response, features, all_urls, tif_urls,
                   tracker_made, completed_urls, input_files, i, attempt,
                   waits, streamed, requested, n_get, cmds, wrote_manifest,
                   file_before, saved_before, loaded_urls>>
    /\ UNCHANGED <<disk, history>>

\* ---------------------------------- process_tifs / ProcessTracker
\* input_files.append(tif_path); mark_completed: completed_urls.add(url)
MarkCompleted ==
    /\ pc = "dl_ok"
    /\ input_files' = Append(input_files, TifPath(i))
    /\ completed_urls' = AddUrl(completed_urls, tif_urls[i])
    /\ saved_before' = PersistedSet
    /\ pc' = "save_open"
    /\ UNCHANGED <<run, max_retries, response, features, all_urls, tif_urls,
                   tracker_made, i, attempt, waits, streamed, dl_ret,
                   requested, n_get, error, sent, redirects, cmds,
                   wrote_manifest, file_before, loaded_urls>>
    /\ UNCHANGED <<disk, history>>

\* save_progress: open(self.progress_file, 'w') truncates the file.
SaveOpen ==
    /\ pc = "save_open"
    /\ progress_file' = [exists |-> TRUE, text |-> <<>>]
    /\ pc' = "save_dump"
    /\ UNCHANGED <<run, max_retries, memory, files, manifest, history>>

\* save_progress: json.dump and the close of the file.
SaveDump ==
    /\ pc = "save_dump"
    /\ \E list \in ListsOf(completed_urls) :
         progress_file' = [exists |-> TRUE, text |-> JsonDump(list)]
    /\ pc' = "save_done"
    /\ UNCHANGED <<run, max_retries, memory, files, manifest, history>>

\* save_progress and mark_completed return.
MarkCompletedReturns ==
    /\ pc = "save_done"
    /\ marked_done' = marked_done \cup {tif_urls[i]}
    /\ pc' = "loop"
    /\ UNCHANGED <<run, max_retries, memory, disk, downloaded, catalog,
                   killed_at>>


\* ------------------------------------------ process_tifs: the pipeline
\* if not input_files: return
NoNewFiles ==
    /\ pc = "after_loop"
    /\ NoInputFiles(input_files)
    /\ pc' = "exit"
    /\ UNCHANGED <<run, max_retries, memory, disk, history>>

\* open('input_files.txt', 'w') creates the file or truncates it.
OpenManifest ==
    /\ pc = "after_loop"
    /\ ~NoInputFiles(input_files)
    /\ manifest' = [exists |-> TRUE, text |-> <<>>]
    /\ pc' = "manifest_write"
    /\ UNCHANGED <<run, max_retries, memory, progress_file, files, history>>

\* f.write('\n'.join(input_files)) and the close, which writes the text out.
WriteManifest ==
    /\ pc = "manifest_write"
    /\ manifest' = [exists |-> TRUE, text |-> JoinLines(input_files)]
    /\ wrote_manifest' = TRUE
    /\ pc' = "gdalwarp"
    /\ UNCHANGED <<run, max_retries, response, features, all_urls, tif_urls,
                   tracker_made, completed_urls, input_files, i, attempt,
                   waits, streamed, dl_ret, requested, n_get, error, sent,
                   redirects, cmds, file_before, saved_before, loaded_urls>>
    /\ UNCHANGED <<progress_file, files, history>>

\* Exit codes of an external command.
ExitCodes == {0, 1}

\* subprocess.run([...]) of one command: it blocks until the command exits
\* and returns whatever the exit code is.
RunCommand(name, next) ==
    /\ pc = name
    /\ \E rc \in ExitCodes : cmds' = Append(cmds, [cmd |-> name, rc |-> rc])
    /\ pc' = next
    /\ UNCHANGED <<run, max_retries, response, features, all_urls, tif_urls,
                   tracker_made, completed_urls, input_files, i, attempt,
                   waits, streamed, dl_ret, requested, n_get, error, sent,
                   redirects, wrote_manifest, file_before, saved_before,
                   loaded_urls>>
    /\ UNCHANGED <<disk, history>>

\* subprocess.run raises FileNotFoundError when the executable cannot be
\* started (GDAL not on PATH); nothing catches it and the run ends there.
CommandNotFound ==
    /\ pc \in {"gdalwarp", "gdaladdo_tif", "gdal_translate",
               "gdaladdo_mbtiles"}
    /\ pc' = "crashed_cmd"
    /\ UNCHANGED <<run, max_retries, memory, disk, history>>

\* (variant: gdalwarp followed at once by gdal_translate)
RunGdalwarpThenTranslate == RunCommand("gdalwarp", "gdal_translate")

\* gdalwarp (163-182), gdaladdo on the merged raster (184-190),
\* gdal_translate (192-203), gdaladdo on the MBTiles (205-211).
RunGdalwarp == RunCommand("gdalwarp", "gdaladdo_tif")
RunGdaladdoTif == RunCommand("gdaladdo_tif", "gdal_translate")
RunGdalTranslate == RunCommand("gdal_translate", "gdaladdo_mbtiles")
RunGdaladdoMbtiles == RunCommand("gdaladdo_mbtiles", "done")

\* ------------------------------------------------- the process's life
Ended ==
    {"exit", "done", "crashed", "crashed_query", "crashed_dl", "crashed_cmd"}
Running == pc \notin Ended \cup {"killed"}

\* A kill falls between two downloads when a download of this run has
\* ended, none is in progress and one is still to come.
BetweenDownloads ==
    /\ pc \in {"dl_ok", "save_open", "save_dump", "save_done", "loop"}
    /\ requested # {}
    /\ \E k \in (i + 1)..Len(tif_urls) : tif_urls[k] \notin completed_urls

\* What a kill leaves of the progress file: during json.dump, as much of
\* the text as was flushed, none of it or all of it included; otherwise
\* the file as it is.
KilledProgressFile ==
    IF pc = "save_dump"
    THEN {[exists |-> TRUE, text |-> SubSeq(JsonDump(list), 1, n)] :
            list \in ListsOf(completed_urls),
            n \in 0..Cardinality(completed_urls) + 2}
    ELSE {progress_file}

\* What a kill leaves of the rasters: during an attempt, output_path as it
\* was or as written so far.
KilledFiles ==
    IF pc = "attempt"
    THEN {files} \cup {[files EXCEPT ![i] = body] : body \in BodiesWritten}
    ELSE {files}

\* The process is killed (SIGKILL, power loss): no handler runs.
Kill ==
    /\ Running
    /\ progress_file' \in KilledProgressFile
    /\ files' \in KilledFiles
    /\ killed_at' = IF BetweenDownloads THEN "between_downloads" ELSE "other"
    /\ ResetMemory
    /\ pc' = "killed"
    /\ UNCHANGED <<run, max_retries, manifest, marked_done, downloaded,
                   catalog>>

\* main() is run again after a run that ended by itself.
RunAgain ==
    /\ pc \in Ended
    /\ run < MaxRuns
    /\ run' = run + 1
    /\ killed_at' = "none"
    /\ ResetMemory
    /\ UNCHANGED max_retries
    /\ pc' = "main"
    /\ UNCHANGED <<disk, marked_done, downloaded, catalog>>

\* main() is run again after a kill.
RunAfterKill ==
    /\ pc = "killed"
    /\ run < MaxRuns
    /\ run' = run + 1
    /\ pc' = "main"
    /\ UNCHANGED <<max_retries, memory, disk, history>>

\* A whole run: the catalog's answer is well-formed and the download
\* servers answer the URL itself; malformed answers are followed in
\* SpecQuery, redirected downloads in SpecDownload.
Next ==
    \/ GetTifUrls
    \/ GetTifUrlsError
    \/ GetTifUrlsBlocks
    \/ MainNoImages
    \/ MainProcess
    \/ LoadProgress
    \/ LoadProgressRaises
    \/ LoopSkip
    \/ LoopDownload
    \/ LoopEnd
    \/ AttemptSucceeds
    \/ AttemptBlocks
    \/ AttemptBlocksStreaming
    \/ AttemptCrashes
    \/ AttemptFailsBeforeOpen
    \/ AttemptFailsStreaming
    \/ RetryAfterWait
    \/ GiveUp
    \/ MarkCompleted
    \/ SaveOpen
    \/ SaveDump
    \/ MarkCompletedReturns
    \/ NoNewFiles
    \/ OpenManifest
    \/ WriteManifest
    \/ RunGdalwarp
    \/ RunGdaladdoTif
    \/ RunGdalTranslate
    \/ RunGdaladdoMbtiles
    \/ CommandNotFound
    \/ Kill
    \/ RunAgain
    \/ RunAfterKill

Spec == Init /\ [][Next]_vars


\* ------------------------------------------- the query on its own

\* main() up to the call of process_tifs, on every answer of the catalog,
\* the malformed ones included.
InitQuery ==
    /\ pc = "main"
    /\ run = 1
    /\ max_retries = MaxRetries
    /\ FreshMemory
    /\ progress_file = NoFile
    /\ files = [k \in 1..MaxUrls |-> "none"]
    /\ manifest = NoFile
    /\ marked_done = {}
    /\ downloaded = {}
    /\ catalog \in FeatureSeqs \cup MalformedSeqs
    /\ killed_at = "none"

NextQuery ==
    \/ GetTifUrls
    \/ GetTifUrlsError
    \/ GetTifUrlsMalformed
    \/ GetTifUrlsBlocks
    \/ MainNoImages
    \/ MainProcess
    \/ Kill
    \/ RunAgain
    \/ RunAfterKill

SpecQuery == InitQuery /\ [][NextQuery]_vars


\* -------------------------------------- ProcessTracker on its own
\* The progress files a tracker is constructed on: none, or any JSON array
\* of URLs, repeated entries included.
TrackerFiles ==
    {NoFile} \cup
    {[exists |-> TRUE, text |-> JsonDump(list)] :
        list \in UNION {[1..n -> URLs] : n \in 0..MaxPersisted}}

InitTracker ==
    /\ pc = "pt_init"
    /\ run = 1
    /\ max_retries = MaxRetries
    /\ FreshMemory
    /\ progress_file \in TrackerFiles
    /\ files = [k \in 1..MaxUrls |-> "none"]
    /\ manifest = NoFile
    /\ marked_done = {}
    /\ downloaded = {}
    /\ catalog = <<>>
    /\ killed_at = "none"

\* tracker.mark_completed(url) is called, as process_tifs calls it after a
\* download, for any URL: one already in the set included.
CallMarkCompleted ==
    /\ pc = "loop"
    /\ \E url \in URLs : tif_urls' = <<url>>
    /\ i' = 1
    /\ input_files' = <<>>
    /\ dl_ret' = "True"
    /\ pc' = "dl_ok"
    /\ UNCHANGED <<run, max_retries, response, features, all_urls,
                   tracker_made, completed_urls, attempt, waits, streamed,
                   requested, n_get, error, sent, redirects, cmds,
                   wrote_manifest, file_before, saved_before, loaded_urls>>
    /\ UNCHANGED <<disk, history>>

NextTracker ==
    \/ LoadProgress
    \/ CallMarkCompleted
    \/ MarkCompleted
    \/ SaveOpen
    \/ SaveDump
    \/ MarkCompletedReturns

SpecTracker == InitTracker /\ [][NextTracker]_vars


\* ------------------------------------------- download_tif on its own
\* download_tif(url, output_path, max_retries) is called with any
\* max_retries >= 1, output_path not existing.
InitDownload ==
    /\ pc = "attempt"
    /\ run = 1
    /\ max_retries \in 1..MaxRetriesArg
    /\ response = "ok"
    /\ features = <<>>
    /\ all_urls = <<>>
    /\ tif_urls = <<UrlOrder[1]>>
    /\ tracker_made = TRUE
    /\ completed_urls = {}
    /\ input_files = <<>>
    /\ i = 1
    /\ attempt = 0
    /\ waits = <<>>
    /\ streamed = FALSE
    /\ dl_ret = "none"
    /\ requested = {}
    /\ n_get = 0
    /\ error = "none"
    /\ sent = 0
    /\ redirects = 0
    /\ cmds = <<>>
    /\ wrote_manifest = FALSE
    /\ file_before = "none"
    /\ saved_before = {}
    /\ loaded_urls = {}
    /\ progress_file = NoFile
    /\ files = [k \in 1..MaxUrls |-> "none"]
    /\ manifest = NoFile
    /\ marked_done = {}
    /\ downloaded = {}
    /\ catalog = <<>>
    /\ killed_at = "none"

NextDownload ==
    \/ AttemptSucceeds
    \/ AttemptBlocks
    \/ AttemptBlocksStreaming
    \/ AttemptCrashes
    \/ AttemptFailsBeforeOpen
    \/ AttemptFailsRedirected
    \/ AttemptFailsStreaming
    \/ AttemptFailsStreamingRedirected
    \/ RetryAfterWait
    \/ GiveUp

\* The call goes on as long as it has a step to take; blocked in a request
\* that is never answered, it has none.
SpecDownload ==
    /\ InitDownload
    /\ [][NextDownload]_vars
    /\ WF_vars(NextDownload)

\* ------------------------------- runs that end by themselves, repeated
\* main() is run again after a run that ended by itself, any number of
\* times: the runs are not counted.
RunOnceMore ==
    /\ pc \in Ended
    /\ killed_at' = "none"
    /\ ResetMemory
    /\ pc' = "main"
    /\ UNCHANGED <<run, max_retries, disk, marked_done, downloaded, catalog>>

\* The catalog of repeated runs over one URL list: features of one year
\* with the assets A and B, each asset once.
RerunCatalogs ==
    {fs \in UNION {[1..n -> [datetime : {<<2023, 7, 1>>}, href : {"A", "B"}]] :
                     n \in 0..2} :
        \A j, k \in 1..Len(fs) : j # k => fs[j].href # fs[k].href}

InitRerun ==
    /\ pc = "main"
    /\ run = 1
    /\ max_retries = MaxRetries
    /\ FreshMemory
    /\ progress_file = NoFile
    /\ files = [k \in 1..MaxUrls |-> "none"]
    /\ manifest = NoFile
    /\ marked_done = {}
    /\ downloaded = {}
    /\ catalog \in RerunCatalogs
    /\ killed_at = "none"

\* The steps of runs that end by themselves.  Every request is answered or
\* fails: no run is blocked in a request.
NextRerun ==
    \/ GetTifUrls
    \/ GetTifUrlsError
    \/ MainNoImages
    \/ MainProcess
    \/ LoadProgress
    \/ LoopSkip
    \/ LoopDownload
    \/ LoopEnd
    \/ AttemptSucceeds
    \/ AttemptCrashes
    \/ AttemptFailsBeforeOpen
    \/ AttemptFailsStreaming
    \/ RetryAfterWait
    \/ GiveUp
    \/ MarkCompleted
    \/ SaveOpen
    \/ SaveDump
    \/ MarkCompletedReturns
    \/ NoNewFiles
    \/ OpenManifest
    \/ WriteManifest
    \/ RunGdalwarp
    \/ RunGdaladdoTif
    \/ RunGdalTranslate
    \/ RunGdaladdoMbtiles
    \/ CommandNotFound
    \/ RunOnceMore

\* Every step the program can take is taken in the end; the catalog answers
\* in the end, and a download that is tried again and again succeeds in the
\* end.
SpecRerun ==
    /\ InitRerun
    /\ [][NextRerun]_vars
    /\ WF_vars(NextRerun)
    /\ SF_vars(GetTifUrls)
    /\ SF_vars(AttemptSucceeds)

\* ------------------------- runs over an output directory found as it is
\* The download_progress.json a first run can find in output_dir: none, an
\* empty file, a text cut short, a JSON object, a JSON number.
ResumeFiles ==
    {NoFile} \cup
    {[exists |-> TRUE, text |-> t] :
        t \in {<<>>, <<"[", "A">>, <<"{", "A", "}">>, <<"0">>}}

InitResume ==
    /\ pc = "main"
    /\ run = 1
    /\ max_retries = MaxRetries
    /\ FreshMemory
    /\ progress_file \in ResumeFiles
    /\ files = [k \in 1..MaxUrls |-> "none"]
    /\ manifest = NoFile
    /\ marked_done = {}
    /\ downloaded = {}
    /\ catalog \in RunCatalogs
    /\ killed_at = "none"

NextResume ==
    \/ NextRerun
    \/ LoadProgressRaises

SpecResume == InitResume /\ [][NextResume]_vars

\* =============================================================== claims

\* Number of entries of a progress file text that are this URL.
Occurrences(text, url) ==
    Cardinality({k \in 2..(Len(text) - 1) : text[k] = url})

\* C1: a run issues no download request for an URL the progress file held
\* when the run loaded it; so a second run over the same URL list requests
\* none of the URLs the first run persisted.
C1_NoRequestForPersistedUrl ==
    requested \cap loaded_urls = {}

\* A second run over the same list has skipped a persisted URL and has
\* requested another one.
C1_Witness ==
    /\ run = 2
    /\ pc = "after_loop"
    /\ Range(tif_urls) \cap loaded_urls # {}
    /\ requested # {}
    /\ catalog # <<>>

\* C2: when mark_completed(url) has returned, the progress file reloads to
\* exactly the identifiers persisted before the call plus url, url is in the
\* file once, and no identifier is in it twice.
C2_MarkCompletedPersistsUnion ==
    (pc = "loop" /\ dl_ret = "True") =>
        /\ progress_file.exists
        /\ JsonValid(progress_file.text)
        /\ JsonLoadSet(progress_file.text) = saved_before \cup {tif_urls[i]}
        /\ Occurrences(progress_file.text, tif_urls[i]) = 1
        /\ \A u \in URLs : Occurrences(progress_file.text, u) <= 1

\* mark_completed has returned for an URL that was already persisted, next
\* to another one.
C2_Witness ==
    /\ pc = "loop"
    /\ dl_ret = "True"
    /\ tif_urls[i] \in saved_before
    /\ Cardinality(saved_before) >= 2


\* C3: every successful download is on disk before the next request: when a
\* download starts the progress file holds the in-memory set, and after a
\* kill between two downloads the next run's load returns every URL whose
\* mark_completed had returned.
C3_CompletedSurviveKillBetweenDownloads ==
    /\ pc = "attempt" =>
          /\ ~progress_file.exists \/ JsonValid(progress_file.text)
          /\ PersistedSet = completed_urls
    /\ (killed_at = "between_downloads" /\ (pc = "crashed" \/ tracker_made))
          => marked_done \subseteq completed_urls

\* C4: after a kill at any point the next run's load succeeds, and returns
\* every URL whose mark_completed had returned and no URL whose download had
\* not finished.
C4_StoreConsistentAfterKill ==
    killed_at # "none" =>
        /\ pc # "crashed"
        /\ tracker_made =>
              /\ marked_done \subseteq completed_urls
              /\ completed_urls \subseteq downloaded

\* The greatest year among the features.
MaxYear(fs) ==
    CHOOSE y \in {Year(fs[k].datetime) : k \in 1..Len(fs)} :
        \A k \in 1..Len(fs) : Year(fs[k].datetime) <= y

\* C5: for a non-empty feature list get_tif_urls returns exactly the asset
\* URLs of the features of the greatest year, each once.
C5_LatestYearUrlsEachOnce ==
    (pc = "gtu_return" /\ response = "ok" /\ features # <<>>) =>
        /\ Range(all_urls) =
              {features[k].href :
                 k \in {n \in 1..Len(features) :
                          Year(features[n].datetime) = MaxYear(features)}}
        /\ \A j, k \in 1..Len(all_urls) : j # k => all_urls[j] # all_urls[k]

\* A response of two years: an asset carried by two features of the latest
\* year, and an asset only an earlier year has.
C5_Witness ==
    /\ pc = "gtu_return"
    /\ response = "ok"
    /\ \E j, k, n \in 1..Len(features) :
         /\ j # k
         /\ features[j].href = features[k].href
         /\ Year(features[j].datetime) = Year(features[k].datetime)
         /\ Year(features[n].datetime) < Year(features[j].datetime)
         /\ features[n].href # features[j].href
    /\ Len(all_urls) = 1

\* C6 as stated: the example returns [A, B].
C6_ExampleInResponseOrder ==
    (pc = "gtu_return" /\ response = "ok" /\ features = ExampleFeatures) =>
        all_urls = <<"A", "B">>

\* C6 amended: the example returns [B, A], the first-seen order of the
\* retained features after the sort by descending timestamp.
C6_ExampleInSortedOrder ==
    (pc = "gtu_return" /\ response = "ok" /\ features = ExampleFeatures) =>
        all_urls = <<"B", "A">>

\* get_tif_urls has answered the example.
C6_Witness ==
    /\ pc = "gtu_return"
    /\ response = "ok"
    /\ features = ExampleFeatures

RECURSIVE SumSeq(_)
SumSeq(s) == IF s = <<>> THEN 0 ELSE s[1] + SumSeq(Tail(s))

\* C7: a download that succeeds on its third request has returned True with
\* the file written and exactly the pauses 5 and 10 taken (15 in all); once
\* the loop is back at its head the URL is in the tracker and in the
\* progress file and the path is in the input list.
C7_ThirdAttemptSucceeds ==
    (dl_ret = "True" /\ n_get = 3) =>
        /\ pc \in {"dl_ok", "save_open", "save_dump", "save_done", "loop"}
        /\ waits = <<5, 10>>
        /\ SumSeq(waits) = 15
        /\ files[i] \in {"complete", "partial"}
        /\ pc = "loop" =>
              /\ tif_urls[i] \in completed_urls
              /\ progress_file.exists
              /\ JsonValid(progress_file.text)
              /\ tif_urls[i] \in JsonLoadSet(progress_file.text)
              /\ TifPath(i) \in Range(input_files)

\* The loop is back at its head after a download that took three requests.
C7_Witness ==
    /\ pc = "loop"
    /\ dl_ret = "True"
    /\ n_get = 3
    /\ Len(waits) = 2

\* C8 as stated: after a download that failed on all its attempts there is
\* no local file for the URL, the URL is neither in the tracker nor in the
\* progress file, the path is not in the input list and the loop goes on.
C8_NoFileAfterExhaustedRetries ==
    dl_ret = "False" =>
        /\ files[i] = "none"
        /\ tif_urls[i] \notin completed_urls
        /\ tif_urls[i] \notin PersistedSet
        /\ TifPath(i) \notin Range(input_files)
        /\ pc = "loop"

\* C8 amended: as stated, but for the local file: it is as it was before the
\* download when every attempt failed before opening it, and is left as
\* written so far, not removed, when an attempt failed while streaming:
\* partly written, or whole when the failure came after the last byte.
C8_PartialFileAfterExhaustedRetries ==
    dl_ret = "False" =>
        /\ n_get = MaxRetries
        /\ IF streamed
           THEN files[i] \in {"partial", "complete"}
           ELSE files[i] = file_before
        /\ tif_urls[i] \notin completed_urls
        /\ tif_urls[i] \notin PersistedSet
        /\ TifPath(i) \notin Range(input_files)
        /\ pc = "loop"

\* A download has failed on all its attempts, one of them while streaming,
\* and another URL is still to be processed.
C8_Witness ==
    /\ dl_ret = "False"
    /\ streamed
    /\ files[i] = "partial"
    /\ i < Len(tif_urls)

\* C9: while a run has produced no input file, no external command has been
\* invoked and the manifest has not been written, and the run is not in the
\* pipeline.
C9_NoPipelineWithoutInputFiles ==
    input_files = <<>> =>
        /\ cmds = <<>>
        /\ ~wrote_manifest
        /\ pc \notin {"gdalwarp", "gdaladdo_tif", "gdal_translate",
                      "gdaladdo_mbtiles", "done"}

\* A run has ended with no new file: one URL was skipped as completed, the
\* download of another failed.
C9_Witness ==
    /\ pc = "exit"
    /\ tracker_made
    /\ input_files = <<>>
    /\ Range(tif_urls) \cap loaded_urls # {}
    /\ requested # {}

\* C10: for an empty features array get_tif_urls returns the empty list, and
\* main then returns: no tracker, no download request, no external command.
C10_EmptyResponseEndsRun ==
    /\ (pc = "gtu_return" /\ response = "ok" /\ features = <<>>)
          => all_urls = <<>>
    /\ (response = "ok" /\ all_urls = <<>> /\ pc # "crashed_query") =>
          /\ pc \in {"gtu_return", "exit"}
          /\ ~tracker_made
          /\ requested = {}
          /\ cmds = <<>>
          /\ ~wrote_manifest

\* main has returned after an answered query with no features.
C10_Witness ==
    /\ pc = "exit"
    /\ response = "ok"
    /\ all_urls = <<>>
    /\ catalog = <<>>

\* The four external commands, in the order process_tifs invokes them.
PipelineOrder ==
    <<"gdalwarp", "gdaladdo_tif", "gdal_translate", "gdaladdo_mbtiles">>

\* What every state of a run shows of the order of its events.
C11_StateOrder ==
    /\ requested # {} => response = "ok"
    /\ requested \subseteq {tif_urls[k] : k \in 1..i}
    /\ pc \in {"attempt", "except", "dl_ok", "save_open", "save_dump",
              "save_done", "crashed_dl"} =>
          (i \in 1..Len(tif_urls) /\ ~wrote_manifest)
    /\ pc = "manifest_write" => (i = Len(tif_urls) /\ requested # {})
    /\ wrote_manifest =>
          /\ i = Len(tif_urls)
          /\ pc \in Range(PipelineOrder) \cup {"done", "crashed_cmd"}
    /\ cmds # <<>> => wrote_manifest
    /\ Len(cmds) <= Len(PipelineOrder)
    /\ \A k \in 1..Len(cmds) : cmds[k].cmd = PipelineOrder[k]
    /\ \A k \in 1..Len(PipelineOrder) :
          pc = PipelineOrder[k] => Len(cmds) = k - 1
    /\ pc = "done" => Len(cmds) = Len(PipelineOrder)

\* What every step of a run shows of the order of its events.
C11_StepOrder ==
    /\ (response # "none" /\ response' # response) => response' = "none"
    /\ i' # i => (i' = i + 1 \/ i' = 0)
    /\ requested' # requested =>
          \/ requested' = {}
          \/ /\ pc = "attempt"
             /\ requested' = requested \cup {tif_urls[i]}
    /\ cmds' # cmds =>
          \/ cmds' = <<>>
          \/ /\ Len(cmds') = Len(cmds) + 1
             /\ SubSeq(cmds', 1, Len(cmds)) = cmds
             /\ cmds'[Len(cmds')].rc \in ExitCodes

\* C11: the events of a run are ordered: one catalog query, before every
\* download; downloads one URL at a time in the order of the URL list; the
\* manifest written only when the loop has passed the last URL; then
\* gdalwarp, gdaladdo on the raster, gdal_translate, gdaladdo on the
\* MBTiles, in this order, each begun only when the one before has exited.
C11_EventsOrdered ==
    /\ []C11_StateOrder
    /\ [][C11_StepOrder]_vars

\* A run has downloaded two URLs and run the four commands.
C11_Witness ==
    /\ pc = "done"
    /\ Len(cmds) = 4
    /\ Len(input_files) >= 2
    /\ Cardinality(requested) >= 2

\* C12: a non-zero exit of one of the four commands ends the run as failed
\* at that stage: no later command is invoked and "Process complete" is not
\* printed; what earlier stages wrote stays in place.
C12_FailedCommandEndsRun ==
    \A k \in 1..Len(cmds) :
        cmds[k].rc # 0 =>
            /\ k = Len(cmds)
            /\ pc \notin Range(PipelineOrder) \cup {"done"}
            /\ manifest.exists

\* The original C13: load_progress returns a set only when there is no
\* progress file or the file holds a JSON array of strings; with any other
\* file it raises.
C13_LoadsOnlyArrayOfStrings ==
    (pc = "loop" /\ i = 0 /\ progress_file.exists) =>
        JsonArray(progress_file.text)

\* What the states after load_progress show.
C13_LoadOutcome ==
    /\ (pc = "loop" /\ i = 0) =>
          IF progress_file.exists
          THEN /\ JsonArray(progress_file.text)
                    \/ JsonObject(progress_file.text)
               /\ completed_urls =
                    {progress_file.text[k] :
                        k \in 2..(Len(progress_file.text) - 1)}
          ELSE completed_urls = {}
    /\ pc = "crashed" =>
          /\ progress_file.exists
          /\ ~JsonArray(progress_file.text)
          /\ ~JsonObject(progress_file.text)
          /\ ~tracker_made
          /\ requested = {}

\* C13 (amended): load_progress returns the empty set when there is no
\* progress file; it raises, before any download and leaving the file as
\* it is, whenever the file is neither a JSON array nor a JSON object (no
\* JSON document, or a number); a JSON object is loaded as the set of its
\* keys.
C13_LoadFailsOnUnreadableFile ==
    /\ []C13_LoadOutcome
    /\ [][(pc' = "crashed" /\ pc # "crashed") =>
            (pc = "pt_init" /\ progress_file' = progress_file)]_vars

\* A first run has found a progress file that is no JSON document and has
\* ended in load_progress.
C13_Witness ==
    /\ pc = "crashed"
    /\ run = 1
    /\ progress_file.exists
    /\ ~JsonValid(progress_file.text)
    /\ tif_urls # <<>>

\* C14: when the search request fails with a transport error, get_tif_urls
\* catches it and returns the empty list, and the run ends as 'no images
\* found': no tracker, no download, no manifest, no command.
C14_QueryErrorEndsRunCleanly ==
    response = "error" =>
        /\ pc \in {"gtu_return", "exit"}
        /\ all_urls = <<>>
        /\ tif_urls = <<>>
        /\ ~tracker_made
        /\ requested = {}
        /\ ~wrote_manifest
        /\ cmds = <<>>

\* A run whose search request failed has ended.
C14_Witness ==
    /\ response = "error"
    /\ pc = "exit"

\* C15: a response with a malformed feature (no properties.datetime, no
\* assets.image.href, or a datetime of another format) is taken as 'no
\* work found': get_tif_urls does not raise, and the list it returns is
\* empty.
C15_MalformedResponseIsNoWork ==
    (\E k \in 1..Len(features) :
        "defect" \in DOMAIN features[k] /\ features[k].defect # "none") =>
        /\ pc # "crashed_query"
        /\ pc = "gtu_return" => all_urls = <<>>

\* What every state of repeated runs shows: past the loop every URL of the
\* list was loaded as completed or has been requested in this run, one whose
\* raster an exhausted download left partial included; a run that loaded
\* every URL of the list requests nothing and downloads nothing; what a
\* run loads holds every URL marked completed before, and so does the file
\* when a run has ended.
C16_RunsResume ==
    /\ pc \in {"after_loop", "manifest_write", "exit", "done", "crashed_cmd"}
             \cup Range(PipelineOrder) =>
          /\ tracker_made =>
                Range(tif_urls) \subseteq loaded_urls \cup requested
          /\ \A k \in 1..Len(tif_urls) :
                (/\ tracker_made
                 /\ files[k] = "partial"
                 /\ tif_urls[k] \notin loaded_urls) =>
                    tif_urls[k] \in requested
    /\ (tracker_made /\ Range(tif_urls) \subseteq loaded_urls) =>
          /\ requested = {}
          /\ input_files = <<>>
          /\ cmds = <<>>
    /\ tracker_made => marked_done \subseteq completed_urls
    /\ pc \in {"exit", "done"} => marked_done \subseteq PersistedSet

\* The progress file holds every URL the catalog answers with.
C16_AllPersisted ==
    {catalog[k].href : k \in 1..Len(catalog)} \subseteq PersistedSet

\* C16: an URL whose download was given up in one run is requested again in
\* the next; when the runs are repeated over the same list and every
\* download succeeds in the end, the progress file comes to hold every URL
\* for good, and a run that finds it so downloads nothing; the persisted
\* set never loses an URL from one run to the next.
C16_RepeatedRunsComplete ==
    /\ []C16_RunsResume
    /\ <>[]C16_AllPersisted

\* In a later run the URL whose raster an exhausted download had left
\* partial has been downloaded, and the file now holds the whole list.
C16_Witness ==
    /\ pc = "loop"
    /\ dl_ret = "True"
    /\ file_before = "partial"
    /\ Len(tif_urls) >= 2
    /\ Range(tif_urls) \subseteq PersistedSet
    /\ loaded_urls # {}

\* The original C17: the session does not send again a download request
\* that fails with a 4xx status or with a connection failure: a request
\* that fails to connect, or is answered 413 or 429 with Retry-After, has
\* been sent once to each address it was redirected to when session.get
\* raises; each such failure is one attempt of the download loop, and a
\* download given up with the default max_retries has made three requests.
C17_SessionSendsFailedRequestOnce ==
    /\ (/\ pc = "except"
        /\ error \in {"connect", "http_4xx_retry_after"}) =>
          /\ sent = redirects + 1
          /\ n_get = attempt + 1
    /\ (dl_ret = "False" /\ max_retries = MaxRetries) => n_get = 3

\* C17 (amended): a download request that fails to connect, or is answered
\* 413 or 429 with Retry-After (or with a status of the forcelist), is sent
\* by the session's adapter four times (Retry total=3) to the address that
\* fails before session.get raises; any other 4xx, a 501 or 505, or a
\* failure while streaming ends the request at the send it answers, within
\* the same four sends; an URL of no known scheme is not sent.  Each
\* redirect followed before took one to four sends more.  Either way the
\* failure is one attempt of the download loop, retried after 5 and 10
\* seconds, and a download given up has made max_retries session.get
\* calls: three by default.
C17_SessionRetriesConnectionFailure ==
    /\ pc = "except" =>
          /\ error \in {"connect", "http_4xx_retry_after", "http_5xx"} =>
                sent - (1 + RetryTotal)
                    \in redirects..(redirects * (1 + RetryTotal))
          /\ error \in {"http_4xx", "http_5xx_unlisted", "stream"} =>
                \E n \in 1..(1 + RetryTotal) :
                    sent - n \in redirects..(redirects * (1 + RetryTotal))
          /\ error = "invalid_url" =>
                sent \in redirects..(redirects * (1 + RetryTotal))
          /\ error = "too_many_redirects" => redirects = RedirectLimit + 1
          /\ redirects <= RedirectLimit + 1
          /\ n_get = attempt + 1
          /\ waits = [k \in 1..attempt |-> 5 * k]
    /\ dl_ret = "False" =>
          /\ n_get = max_retries
          /\ max_retries = MaxRetries => waits = <<5, 10>>

\* The third attempt of a download has failed to connect after four tries
\* of the adapter, no redirect followed.
C17_Witness ==
    /\ pc = "except"
    /\ error = "connect"
    /\ redirects = 0
    /\ sent = 4
    /\ attempt = 2
    /\ n_get = 3
    /\ max_retries = MaxRetries
    /\ ~streamed

\* The positions in the URL list of the URLs this run added to the tracker.
C18_NewlyCompleted ==
    {k \in 1..Len(tif_urls) : tif_urls[k] \in completed_urls \ loaded_urls}

\* The lines of the manifest: what stands between the separators.
C18_ManifestLines ==
    [j \in 1..((Len(manifest.text) + 1) \div 2) |-> manifest.text[2 * j - 1]]

\* C18: the manifest a run wrote holds one line for each URL the run
\* downloaded and added to the tracker, and no other line: the path
\* input_<k>.tif of the URL at position k of the whole URL list, the lines
\* in the order of the list and none twice; an URL that was skipped has no
\* line.
C18_ManifestListsNewDownloads ==
    wrote_manifest =>
        /\ manifest.exists
        /\ Len(manifest.text) = 2 * Cardinality(C18_NewlyCompleted) - 1
        /\ \A n \in 1..Len(manifest.text) :
              (n % 2 = 0) <=> (manifest.text[n] = <<"\n">>)
        /\ \A k \in C18_NewlyCompleted :
              /\ C18_ManifestLines[
                    Cardinality({m \in C18_NewlyCompleted : m <= k})]
                    = <<"input_", k, ".tif">>
              /\ tif_urls[k] \in requested
              /\ tif_urls[k] \in downloaded
              /\ files[k] # "none"
        /\ \A j, k \in 1..Len(C18_ManifestLines) :
              j # k => C18_ManifestLines[j] # C18_ManifestLines[k]
        /\ \A k \in 1..Len(tif_urls) :
              tif_urls[k] \in loaded_urls =>
                  \A j \in 1..Len(C18_ManifestLines) :
                      C18_ManifestLines[j] # <<"input_", k, ".tif">>

\* A run that skipped an URL completed before has written a manifest of
\* two lines.
C18_Witness ==
    /\ wrote_manifest
    /\ Len(manifest.text) = 3
    /\ Range(tif_urls) \cap loaded_urls # {}

\* What every state of a download_tif call shows: at most max_retries
\* requests; the pause before attempt k + 1 was 5 * k; a call that returned
\* False made max_retries requests and max_retries - 1 pauses, none after
\* the last failure; with max_retries = 3 the pauses add up to 15.
C19_AttemptsAndPauses ==
    /\ attempt < max_retries
    /\ n_get <= max_retries
    /\ n_get \in {attempt, attempt + 1}
    /\ waits = [k \in 1..attempt |-> 5 * k]
    /\ dl_ret \in {"none", "True", "False"}
    /\ pc \in {"blocked", "crashed_dl"} => dl_ret = "none"
    /\ dl_ret = "True" => pc = "dl_ok"
    /\ dl_ret = "False" =>
          /\ pc = "loop"
          /\ n_get = max_retries
          /\ Len(waits) = max_retries - 1
          /\ max_retries = 3 => SumSeq(waits) = 5 + 10

\* C19: for every max_retries >= 1 and whatever attempts fail, download_tif
\* returns True or False after at most max_retries attempts, having paused
\* 5 * k before attempt k + 1 and not after the last failed attempt.
C19_DownloadTerminates ==
    /\ []C19_AttemptsAndPauses
    /\ <>(dl_ret \in {"True", "False"})

====
